---- MODULE Spec2Model ----
(***************************************************************************)
(* Model of the drag-and-drop demo: the Home page (sidebar, form-creator   *)
(* toggle) and the Viewer component (SDK load, interaction mode, dragover  *)
(* and drop listeners on the SDK's content document, field creation).      *)
(* The vendor SDK is the environment: its calls resolve, reject or throw    *)
(* nondeterministically.                                                    *)
(***************************************************************************)
EXTENDS Integers, Sequences, FiniteSets, TLC

\* Drop-handler invocations explored per behaviour.
MaxDrops == 2

------------------------------------------------------------------------------
\* JavaScript strings (TLA+ strings with \o, Len and SubSeq).

Upper == "ABCDEFGHIJKLMNOPQRSTUVWXYZ"
Lower == "abcdefghijklmnopqrstuvwxyz"
Digits == "0123456789"

CharAt(s, i) == SubSeq(s, i, i)

\* String.prototype.includes
Includes(s, sub) ==
  \E i \in 1..(Len(s) - Len(sub) + 1) : SubSeq(s, i, i + Len(sub) - 1) = sub

LowerChar(c) ==
  IF \E i \in 1..Len(Upper) : CharAt(Upper, i) = c
    THEN CharAt(Lower, CHOOSE i \in 1..Len(Upper) : CharAt(Upper, i) = c)
    ELSE c

\* String.prototype.toLowerCase
RECURSIVE ToLowerCase(_)
ToLowerCase(s) ==
  IF Len(s) = 0 THEN ""
  ELSE LowerChar(CharAt(s, 1)) \o ToLowerCase(SubSeq(s, 2, Len(s)))

\* JavaScript numbers that the handler computes: a number or NaN.
Num(n) == <<"number", n>>
NaN == <<"NaN">>

DigitValue(c) == (CHOOSE i \in 1..Len(Digits) : CharAt(Digits, i) = c) - 1
IsDigit(c) == \E i \in 1..Len(Digits) : CharAt(Digits, i) = c

RECURSIVE ParseDigits(_, _, _)
ParseDigits(s, i, acc) ==
  IF i <= Len(s) /\ IsDigit(CharAt(s, i))
    THEN ParseDigits(s, i + 1, 10 * acc + DigitValue(CharAt(s, i)))
    ELSE acc

\* parseInt(s): the leading decimal digits, NaN when there are none.
ParseInt(s) ==
  IF Len(s) > 0 /\ IsDigit(CharAt(s, 1)) THEN Num(ParseDigits(s, 1, 0)) ELSE NaN

\* The tokens of a class attribute (element.classList).
RECURSIVE Tokens(_, _, _)
Tokens(s, i, cur) ==
  IF i > Len(s) THEN (IF cur = "" THEN {} ELSE {cur})
  ELSE IF CharAt(s, i) = " "
    THEN (IF cur = "" THEN {} ELSE {cur}) \cup Tokens(s, i + 1, "")
    ELSE Tokens(s, i + 1, cur \o CharAt(s, i))

ClassList(className) == Tokens(className, 1, "")

------------------------------------------------------------------------------
\* The DOM of the SDK's content document that events are targeted at.
\* dataPageIndex is <<>> when the data-page-index attribute is absent.

NullNode == "null"

DOM ==
  [ document |-> [isElement |-> FALSE, className |-> "",
                  parentNode |-> NullNode, dataPageIndex |-> <<>>],
    page     |-> [isElement |-> TRUE, className |-> "PSPDFKit-Page PSPDFKit-8f2",
                  parentNode |-> "document", dataPageIndex |-> <<"2">>],
    layer    |-> [isElement |-> TRUE, className |-> "PSPDFKit-Layer",
                  parentNode |-> "page", dataPageIndex |-> <<>>],
    lowpage  |-> [isElement |-> TRUE, className |-> "x-pspdfkit-page-1",
                  parentNode |-> "document", dataPageIndex |-> <<>>],
    thumb    |-> [isElement |-> TRUE, className |-> "thumb PageThumb",
                  parentNode |-> "document", dataPageIndex |-> <<"">>],
    label    |-> [isElement |-> TRUE, className |-> "",
                  parentNode |-> "thumb", dataPageIndex |-> <<"1">>] ]

Targets == DOMAIN DOM

\* closestByClass(el, className): the node itself or its nearest ancestor
\* that has the class in its classList or as a substring of its className.
RECURSIVE closestByClass(_, _)
closestByClass(el, className) ==
  IF el = NullNode THEN NullNode
  ELSE IF DOM[el].isElement /\ className \in ClassList(DOM[el].className) THEN el
  ELSE IF DOM[el].isElement /\ DOM[el].className # ""
          /\ Includes(DOM[el].className, className) THEN el
  ELSE IF DOM[el].parentNode # NullNode
    THEN closestByClass(DOM[el].parentNode, className)
    ELSE NullNode

\* The page-element lookup without its third method, the 'page' class of the
\* target itself.
LookupPageElementNoFallback(target) ==
  LET m1 == closestByClass(target, "PSPDFKit-Page")
  IN IF m1 = NullNode THEN closestByClass(target, "pspdfkit-page") ELSE m1

\* The page-element lookup shared by the dragover and the drop handler.
LookupPageElement(target) ==
  LET m1 == closestByClass(target, "PSPDFKit-Page")
      m2 == IF m1 = NullNode THEN closestByClass(target, "pspdfkit-page") ELSE m1
  IN IF m2 # NullNode THEN m2
     ELSE IF DOM[target].isElement
             /\ \E cls \in ClassList(DOM[target].className) :
                  Includes(ToLowerCase(cls), "page")
       THEN target
       ELSE NullNode

\* The lookup, tabulated once for the nodes of the DOM.
PageElementOf == [t \in Targets |-> LookupPageElement(t)]
FindPageElement(target) == PageElementOf[target]

------------------------------------------------------------------------------
VARIABLES
  formCreatorMode,    \* Home: useState(false)
  draggingItem,       \* Home: useState(null); "null" or an annotation type
  dataTransfer,       \* the browser's current drag session, NoDrag when none
  phase,              \* Viewer: "rendered" (effects not yet run), "mounted", "unmounted"
  isViewerReady,      \* Viewer: useState(false)
  viewerInstanceRef,  \* Viewer: useRef(null)
  eventHandlersRef,   \* Viewer: useRef(null)
  viewerInstance,     \* the initialization effect's local `viewerInstance`
  capturedMode,       \* formCreatorMode of the render whose effect called load
  sdkPresent,         \* window.NutrientViewer is defined
  loadState,          \* "idle", "pending", "resolved", "rejected"
  loadCalls,          \* calls of NutrientViewer.load
  unloadCalls,        \* calls of NutrientViewer.unload
  viewerLoaded,       \* the SDK has a viewer in the container
  interactionMode,    \* the mode last given to instance.setViewState, "unset" before
  listeners,          \* listeners attached to instance.contentDocument
  dropCount,          \* drop-handler invocations so far
  dropOutcome,        \* per invocation: "none", "pending", "created", "failed", "ignored"
  createCalls,        \* per invocation: calls of instance.create
  outstanding,        \* per invocation: create calls started and not settled
  idCounter,          \* ids handed out by NutrientViewer.generateInstantId
  fields,             \* per invocation: <<widget id, form field name>> given to create
  ev                  \* what the most recent handler or callback run did

vars == <<formCreatorMode, draggingItem, dataTransfer, phase, isViewerReady,
          viewerInstanceRef, eventHandlersRef, viewerInstance, capturedMode,
          sdkPresent, loadState, loadCalls, unloadCalls, viewerLoaded,
          interactionMode, listeners, dropCount, dropOutcome, createCalls,
          outstanding, idCounter, fields, ev>>

homeVars == <<formCreatorMode, draggingItem>>
viewerVars == <<phase, isViewerReady, viewerInstanceRef, eventHandlersRef,
                viewerInstance, capturedMode>>
sdkVars == <<sdkPresent, loadState, loadCalls, unloadCalls, viewerLoaded,
             interactionMode, listeners>>
dropVars == <<dropCount, dropOutcome, createCalls, outstanding, idCounter, fields>>

------------------------------------------------------------------------------
\* Values.

NoItem == "null"
AnnotationTypes == {"Signature", "DateSigned", "Initials"}
\* Text carried by drags that do not start at the sidebar ("" when the drag
\* carries no text).
ForeignTexts == {"", "Stamp"}

\* A drag session: where it started, the 'text' payload of its dataTransfer
\* and the handler closures its drop event has been dispatched to.
NoDrag == [source |-> "none", text |-> "", delivered |-> {}]

NoInstance == [id |-> 0, contentDocument |-> FALSE, getPageIndexFromClientPoint |-> FALSE]
\* The instance a load call resolves with; which members it has is the SDK's.
Instances(n) == [id : {n}, contentDocument : BOOLEAN, getPageIndexFromClientPoint : BOOLEAN]

\* A handler closure: the setupDragAndDrop call that made it and the `enabled`
\* and `instance` arguments of that call.
NoHandler == [setup |-> 0, kind |-> "none", enabled |-> FALSE, instance |-> NoInstance]
NoHandlers == [dragover |-> NoHandler, drop |-> NoHandler]

\* The position of the drop (dragEvent.clientX, dragEvent.clientY).
ClientPoint == [x |-> 120, y |-> 340]
\* Page indexes instance.getPageIndexFromClientPoint may return.
PointPages == {0, 1}

Drops == 1..MaxDrops

------------------------------------------------------------------------------
\* Home (the page component).

\* handleDragStart without the formCreatorMode check.
handleDragStartUngated(annotationType) ==
  /\ dataTransfer' = [source |-> "sidebar", text |-> annotationType,
                      delivered |-> {}]
  /\ draggingItem' = annotationType
  /\ ev' = [type |-> "dragstart", annotationType |-> annotationType,
            defaultPrevented |-> FALSE, textSet |-> <<annotationType>>]

\* handleDragStart(event, annotationType)
handleDragStart(annotationType) ==
  IF ~formCreatorMode
    THEN /\ ev' = [type |-> "dragstart", annotationType |-> annotationType,
                   defaultPrevented |-> TRUE, textSet |-> <<>>]
         /\ UNCHANGED <<draggingItem, dataTransfer>>
    ELSE /\ dataTransfer' = [source |-> "sidebar", text |-> annotationType,
                      delivered |-> {}]
         /\ draggingItem' = annotationType
         /\ ev' = [type |-> "dragstart", annotationType |-> annotationType,
                   defaultPrevented |-> FALSE, textSet |-> <<annotationType>>]

\* A dragstart event on one of the three sidebar items.
DragStart(annotationType) ==
  /\ phase = "mounted"
  /\ dataTransfer = NoDrag
  /\ handleDragStart(annotationType)
  /\ UNCHANGED <<formCreatorMode, viewerVars, sdkVars, dropVars>>

\* A drag that starts outside the sidebar (selected text, a file, another page).
ForeignDragStart(text) ==
  /\ dataTransfer = NoDrag
  /\ dataTransfer' = [source |-> "foreign", text |-> text, delivered |-> {}]
  /\ ev' = [type |-> "foreignDragstart"]
  /\ UNCHANGED <<homeVars, viewerVars, sdkVars, dropVars>>

\* A drag-end handler that does not reset the dragging state.
handleDragEndKeepsItem == UNCHANGED draggingItem

\* handleDragEnd()
handleDragEnd == draggingItem' = NoItem

\* The drag session ends; a sidebar item receives dragend.
DragEnd ==
  /\ dataTransfer # NoDrag
  /\ dataTransfer' = NoDrag
  /\ IF dataTransfer.source = "sidebar" /\ phase = "mounted"
       THEN handleDragEnd
       ELSE UNCHANGED draggingItem
  /\ ev' = [type |-> "dragend"]
  /\ UNCHANGED <<formCreatorMode, viewerVars, sdkVars, dropVars>>

------------------------------------------------------------------------------
\* Viewer: listener registration.  The pair (eventHandlersRef.current, the
\* listeners on the content document) is passed as a record st.

\* A setup number no handler alive carries: every call of setupDragAndDrop
\* makes two new function objects.
FreshSetup(st) ==
  LET used == {h.setup : h \in st.listeners}
               \cup {st.ref.dragover.setup, st.ref.drop.setup}
  IN CHOOSE n \in 1..(Cardinality(used) + 1) : n \notin used

\* cleanupDragAndDrop(instance)
cleanupDragAndDrop(instance, st) ==
  IF instance # NoInstance /\ instance.contentDocument /\ st.ref # NoHandlers
    THEN [ref |-> NoHandlers,
          listeners |-> st.listeners \ {st.ref.dragover, st.ref.drop}]
    ELSE st

\* setupDragAndDrop(instance, enabled): the registration at its end; the two
\* handlers it defines are DragOver and Drop below.
setupDragAndDrop(instance, enabled, st) ==
  LET n == FreshSetup(st)
      dragoverHandler == [setup |-> n, kind |-> "dragover", enabled |-> enabled,
                          instance |-> instance]
      dropHandler == [setup |-> n, kind |-> "drop", enabled |-> enabled,
                      instance |-> instance]
  IN IF instance # NoInstance /\ instance.contentDocument
       THEN [ref |-> [dragover |-> dragoverHandler, drop |-> dropHandler],
             listeners |-> st.listeners \cup {dragoverHandler, dropHandler}]
       ELSE st

HandlerState == [ref |-> eventHandlersRef, listeners |-> listeners]

InteractionModeFor(mode) == IF mode THEN "FORM_CREATOR" ELSE "DEFAULT"

\* useEffect(..., [formCreatorMode]): update the interaction mode.
ModeEffect(mode) ==
  interactionMode' = IF viewerInstanceRef # NoInstance
                       THEN InteractionModeFor(mode)
                       ELSE interactionMode

\* The re-registration effect without the cleanup of the existing handlers.
HandlersEffectNoCleanup(mode) ==
  LET instance == viewerInstanceRef
      st == IF instance # NoInstance
              THEN setupDragAndDrop(instance, mode, HandlerState)
              ELSE HandlerState
  IN /\ eventHandlersRef' = st.ref
     /\ listeners' = st.listeners

\* The re-registration effect, run only when the mode is switched on.
HandlersEffectOnlyWhenOn(mode) ==
  LET instance == viewerInstanceRef
      st == IF instance # NoInstance /\ mode
              THEN setupDragAndDrop(instance, mode,
                                    cleanupDragAndDrop(instance, HandlerState))
              ELSE HandlerState
  IN /\ eventHandlersRef' = st.ref
     /\ listeners' = st.listeners

\* useEffect(..., [formCreatorMode]): re-register the drag and drop handlers.
HandlersEffect(mode) ==
  LET instance == viewerInstanceRef
      st == IF instance # NoInstance
              THEN setupDragAndDrop(instance, mode,
                                    cleanupDragAndDrop(instance, HandlerState))
              ELSE HandlerState
  IN /\ eventHandlersRef' = st.ref
     /\ listeners' = st.listeners

\* useEffect(..., []): the body of the initialization effect.
InitEffect ==
  IF viewerInstanceRef = NoInstance /\ sdkPresent
    THEN /\ loadCalls' = loadCalls + 1
         /\ loadState' = "pending"
         /\ capturedMode' = formCreatorMode
    ELSE UNCHANGED <<loadCalls, loadState, capturedMode>>

\* The effects of the first commit, in the order they are declared.
Mount ==
  /\ phase = "rendered"
  /\ phase' = "mounted"
  /\ ModeEffect(formCreatorMode)
  /\ InitEffect
  /\ HandlersEffect(formCreatorMode)
  /\ ev' = [type |-> "mount"]
  /\ UNCHANGED <<homeVars, dataTransfer, isViewerReady, viewerInstanceRef,
                 viewerInstance, sdkPresent, unloadCalls, viewerLoaded, dropVars>>

\* Every effect run again on a change of formCreatorMode, the initialization
\* effect included.
EffectsOnModeChangeAll(mode) ==
  /\ ModeEffect(mode)
  /\ InitEffect
  /\ HandlersEffect(mode)

\* The effects a change of formCreatorMode runs again: those with the
\* dependency array [formCreatorMode]; the initialization effect has [].
EffectsOnModeChange(mode) ==
  /\ ModeEffect(mode)
  /\ HandlersEffect(mode)
  /\ UNCHANGED <<loadCalls, loadState, capturedMode>>

\* toggleFormCreatorMode, the re-render and the effects that follow it.
Toggle ==
  /\ phase = "mounted"
  /\ formCreatorMode' = ~formCreatorMode
  /\ EffectsOnModeChange(~formCreatorMode)
  /\ ev' = [type |-> "toggle"]
  /\ UNCHANGED <<draggingItem, dataTransfer, phase, isViewerReady,
                 viewerInstanceRef, viewerInstance, sdkPresent,
                 unloadCalls, viewerLoaded, dropVars>>

\* NutrientViewer.load(...).then(instance => ...)
LoadResolve(instance) ==
  /\ loadState = "pending"
  /\ loadState' = "resolved"
  /\ viewerLoaded' = TRUE
  /\ viewerInstance' = instance
  /\ viewerInstanceRef' = instance
  /\ isViewerReady' = (IF phase = "mounted" THEN TRUE ELSE isViewerReady)
  /\ interactionMode' = InteractionModeFor(capturedMode)
  /\ LET st == setupDragAndDrop(instance, capturedMode, HandlerState)
     IN /\ eventHandlersRef' = st.ref
        /\ listeners' = st.listeners
  /\ ev' = [type |-> "loadResolved"]
  /\ UNCHANGED <<homeVars, dataTransfer, phase, capturedMode, sdkPresent,
                 loadCalls, unloadCalls, dropVars>>

\* A rejection handler that marks the viewer ready all the same.
CatchLoadErrorMarksReady ==
  /\ isViewerReady' = TRUE
  /\ UNCHANGED <<viewerInstanceRef, viewerInstance, eventHandlersRef,
                 listeners, interactionMode, loadCalls>>

\* What the rejection handler leaves of the Viewer's state: it only logs.
CatchLoadError ==
  UNCHANGED <<isViewerReady, viewerInstanceRef, viewerInstance, eventHandlersRef,
              listeners, interactionMode, loadCalls>>

\* NutrientViewer.load(...).catch(error => console.error(...))
LoadReject ==
  /\ loadState = "pending"
  /\ loadState' = "rejected"
  /\ CatchLoadError
  /\ ev' = [type |-> "loadRejected"]
  /\ UNCHANGED <<homeVars, dataTransfer, phase, capturedMode, sdkPresent,
                 unloadCalls, viewerLoaded, dropVars>>

\* The cleanup returned by the initialization effect.
Unmount ==
  /\ phase = "mounted"
  /\ phase' = "unmounted"
  /\ IF viewerInstance # NoInstance
       THEN LET st == cleanupDragAndDrop(viewerInstance, HandlerState)
            IN /\ eventHandlersRef' = st.ref
               /\ listeners' = st.listeners
               /\ unloadCalls' = (IF sdkPresent THEN unloadCalls + 1 ELSE unloadCalls)
               /\ viewerLoaded' = (IF sdkPresent THEN FALSE ELSE viewerLoaded)
               /\ viewerInstanceRef' = NoInstance
       ELSE UNCHANGED <<eventHandlersRef, listeners, unloadCalls, viewerLoaded,
                        viewerInstanceRef>>
  /\ ev' = [type |-> "unmount"]
  /\ UNCHANGED <<homeVars, dataTransfer, isViewerReady, viewerInstance,
                 capturedMode, sdkPresent, loadState, loadCalls,
                 interactionMode, dropVars>>

------------------------------------------------------------------------------
\* Viewer: the dragover and drop handlers.

\* dragoverHandler(event) of the closure h, for an event on `target`.
DragOver(h, target) ==
  /\ h \in listeners /\ h.kind = "dragover"
  /\ dataTransfer # NoDrag
  /\ ev' = [type |-> "dragover", enabled |-> h.enabled, target |-> target,
            defaultPrevented |-> (h.enabled /\ FindPageElement(target) # NullNode)]
  /\ UNCHANGED <<homeVars, dataTransfer, viewerVars, sdkVars, dropVars>>

\* NutrientViewer.generateInstantId(): the n-th id handed out.
InstantId(n) == "01J" \o ToString(n)

\* What instance.getPageIndexFromClientPoint may do: return a page or throw.
PointResults == {Num(p) : p \in PointPages} \cup {<<"throw">>}
\* The method is called only when no page element is found and it exists.
PointResultsAt(h, target) ==
  IF FindPageElement(target) = NullNode /\ h.instance.getPageIndexFromClientPoint
    THEN PointResults
    ELSE {<<"not called">>}

\* The page index read from the dataset of the event target instead of the
\* page element found for it.
ResolvePageIndexFromTarget(instance, target, pointResult) ==
  LET pageElement == FindPageElement(target)
      attr == DOM[target].dataPageIndex
  IN IF pageElement # NullNode
       THEN ParseInt(IF attr = <<>> \/ attr[1] = "" THEN "0" ELSE attr[1])
       ELSE IF instance.getPageIndexFromClientPoint /\ pointResult \in PointResults
                 /\ pointResult # <<"throw">>
              THEN pointResult
              ELSE Num(0)

\* The page index the drop handler resolves.
ResolvePageIndex(instance, target, pointResult) ==
  LET pageElement == FindPageElement(target)
      attr == DOM[pageElement].dataPageIndex
  IN IF pageElement # NullNode
       THEN ParseInt(IF attr = <<>> \/ attr[1] = "" THEN "0" ELSE attr[1])
       ELSE IF instance.getPageIndexFromClientPoint /\ pointResult \in PointResults
                 /\ pointResult # <<"throw">>
              THEN pointResult
              ELSE Num(0)

\* new NutrientViewer.Geometry.Rect({left, top, height, width})
Rect(left, top, height, width) ==
  [left |-> left, top |-> top, height |-> height, width |-> width]

\* instance.transformContentClientToPageSpace(rect, pageIndex), opaque.
TransformToPageSpace(rect, pageIndex) ==
  [space |-> "page", pageIndex |-> pageIndex, of |-> rect]

WidgetAnnotation(boundingBox, formFieldName, id, pageIndex, name) ==
  [type |-> "WidgetAnnotation", boundingBox |-> boundingBox,
   formFieldName |-> formFieldName, id |-> id, pageIndex |-> pageIndex,
   name |-> name]

SignatureFormField(annotationIds, name) ==
  [type |-> "SignatureFormField", annotationIds |-> annotationIds, name |-> name]

TextFormField(annotationIds, name, value) ==
  [type |-> "TextFormField", annotationIds |-> annotationIds, name |-> name,
   value |-> value]

\* The SDK calls of the try block, in the order the handler makes them.
DropCalls(label) ==
  <<"Rect", "transformContentClientToPageSpace", "generateInstantId">> \o
  (CASE label = "Signature" ->
          <<"WidgetAnnotation", "List", "SignatureFormField", "create">>
     [] label = "DateSigned" ->
          <<"Rect", "transformContentClientToPageSpace", "generateInstantId",
            "WidgetAnnotation", "List", "TextFormField", "create">>
     [] label = "Initials" ->
          <<"Rect", "transformContentClientToPageSpace", "generateInstantId",
            "WidgetAnnotation", "List", "SignatureFormField", "create">>
     [] OTHER ->
          <<"generateInstantId", "WidgetAnnotation", "List",
            "SignatureFormField", "create">>)

\* The date field's name built from the label, as the common name is.
DateFormFieldNameFromLabel(label, dateUniqueId) ==
  ToLowerCase(label) \o "-" \o dateUniqueId

\* The date field's name without the generated id.
DateFormFieldNameWithoutId(label, dateUniqueId) == "date-" \o ToLowerCase(label)

\* const dateFormFieldName = `date-${dateUniqueId}`
DateFormFieldName(label, dateUniqueId) == "date-" \o dateUniqueId

\* The argument of instance.create: the switch on label.  id1 and id2 are the
\* first and the second id generateInstantId returns in this invocation.
CreateArgs(label, pageIndex, id1, id2) ==
  LET clientRect == Rect(ClientPoint.x, ClientPoint.y, 55, 225)
      pageRect == TransformToPageSpace(clientRect, pageIndex)
      uniqueId == id1
      formFieldName == ToLowerCase(label) \o "-" \o uniqueId
  IN CASE label = "Signature" ->
            << WidgetAnnotation(pageRect, formFieldName, uniqueId, pageIndex,
                                "Signature"),
               SignatureFormField(<<uniqueId>>, formFieldName) >>
       [] label = "DateSigned" ->
            LET dateClientRect == Rect(ClientPoint.x, ClientPoint.y, 55, 225)
                datePageRect == TransformToPageSpace(dateClientRect, pageIndex)
                dateUniqueId == id2
                dateFormFieldName == DateFormFieldName(label, dateUniqueId)
            IN << WidgetAnnotation(datePageRect, dateFormFieldName, dateUniqueId,
                                   pageIndex, "Date Signed"),
                  TextFormField(<<dateUniqueId>>, dateFormFieldName,
                                "TBD: Date Signed") >>
       [] label = "Initials" ->
            LET initialsClientRect == Rect(ClientPoint.x, ClientPoint.y, 50, 50)
                initialsPageRect == TransformToPageSpace(initialsClientRect, pageIndex)
                initialsUniqueId == id2
                initialsFormFieldName == "initials-" \o initialsUniqueId
            IN << WidgetAnnotation(initialsPageRect, initialsFormFieldName,
                                   initialsUniqueId, pageIndex, "Initials"),
                  SignatureFormField(<<initialsUniqueId>>, initialsFormFieldName) >>
       [] OTHER ->
            LET defaultUniqueId == id2
                defaultFormFieldName == "annotation-" \o defaultUniqueId
            IN << WidgetAnnotation(pageRect, defaultFormFieldName, defaultUniqueId,
                                   pageIndex,
                                   IF label # "" THEN label ELSE "Annotation"),
                  SignatureFormField(<<defaultUniqueId>>, defaultFormFieldName) >>

CountOf(seq, x) == Cardinality({i \in 1..Len(seq) : seq[i] = x})

\* The create call issued twice without awaiting the first.
IssueCreateTwice(out, d) == [out EXCEPT ![d] = @ + 2]

\* `await instance.create([widget, formField])`: one more call of invocation d
\* is outstanding.
IssueCreate(out, d) == [out EXCEPT ![d] = @ + 1]

\* dropHandler(event) of the closure h, for the drop event of the current
\* drag session on `target`.  failAt = 0: no SDK call of the try block
\* throws; failAt = k: the k-th one throws.  The run goes up to the await of
\* instance.create.
Drop(h, target, failAt, pointResult) ==
  /\ h \in listeners /\ h.kind = "drop"
  /\ dataTransfer # NoDrag /\ h.setup \notin dataTransfer.delivered
  /\ dataTransfer' = [dataTransfer EXCEPT !.delivered = @ \cup {h.setup}]
  /\ dropCount < MaxDrops
  /\ LET d == dropCount + 1
         label == dataTransfer.text
         pageIndex == ResolvePageIndex(h.instance, target, pointResult)
         calls == DropCalls(label)
         made == IF failAt = 0 THEN calls ELSE SubSeq(calls, 1, failAt)
         returned == IF failAt = 0 THEN calls ELSE SubSeq(calls, 1, failAt - 1)
         createCalled == CountOf(made, "create") > 0
         args == CreateArgs(label, pageIndex, InstantId(idCounter + 1),
                            InstantId(idCounter + 2))
     IN /\ failAt \in 0..Len(calls)
        /\ dropCount' = d
        /\ IF ~h.enabled
             THEN /\ dropOutcome' = [dropOutcome EXCEPT ![d] = "ignored"]
                  /\ ev' = [type |-> "drop", drop |-> d, enabled |-> FALSE,
                            defaultPrevented |-> FALSE, propagationStopped |-> FALSE,
                            label |-> "", target |-> target, pageIndex |-> Num(0),
                            pointResult |-> <<"not called">>, sdkCalls |-> <<>>, created |-> <<>>,
                            errorCaught |-> FALSE, result |-> "undefined"]
                  /\ UNCHANGED <<createCalls, outstanding, idCounter>>
             ELSE /\ idCounter' = idCounter + CountOf(returned, "generateInstantId")
                  /\ createCalls' = [createCalls EXCEPT
                                       ![d] = @ + CountOf(made, "create")]
                  /\ outstanding' = IF failAt = 0 THEN IssueCreate(outstanding, d)
                                    ELSE outstanding
                  /\ dropOutcome' = [dropOutcome EXCEPT
                                       ![d] = IF failAt = 0 THEN "pending" ELSE "failed"]
                  /\ ev' = [type |-> "drop", drop |-> d, enabled |-> TRUE,
                            defaultPrevented |-> TRUE, propagationStopped |-> TRUE,
                            label |-> label, target |-> target,
                            pageIndex |-> pageIndex, pointResult |-> pointResult,
                            sdkCalls |-> made,
                            created |-> IF createCalled THEN args ELSE <<>>,
                            errorCaught |-> (failAt # 0),
                            result |-> IF failAt = 0 THEN "pending" ELSE "false"]
  /\ UNCHANGED <<homeVars, viewerVars, sdkVars>>

\* A catch block that calls instance.create again.
CatchCreateErrorRetries(d) ==
  /\ createCalls' = [createCalls EXCEPT ![d] = @ + 1]
  /\ UNCHANGED <<outstanding, dropOutcome>>

\* The catch block, entered when the awaited create call of d rejects.
CatchCreateError(d) ==
  /\ outstanding' = [outstanding EXCEPT ![d] = @ - 1]
  /\ dropOutcome' = [dropOutcome EXCEPT ![d] = "failed"]
  /\ UNCHANGED createCalls

\* The awaited create call of invocation d settles and the handler runs on
\* to `return false`.
CreateSettle(d, ok) ==
  /\ d \in Drops
  /\ dropOutcome[d] = "pending" /\ outstanding[d] > 0
  /\ IF ok
       THEN /\ outstanding' = [outstanding EXCEPT ![d] = @ - 1]
            /\ dropOutcome' = [dropOutcome EXCEPT ![d] = "created"]
            /\ UNCHANGED createCalls
       ELSE CatchCreateError(d)
  /\ ev' = [type |-> "createSettled", drop |-> d, ok |-> ok,
            errorCaught |-> ~ok,
            result |-> IF dropOutcome'[d] = "pending" THEN "pending" ELSE "false"]
  /\ UNCHANGED <<homeVars, dataTransfer, viewerVars, sdkVars, dropCount, idCounter,
                 fields>>

------------------------------------------------------------------------------
Init ==
  /\ formCreatorMode = FALSE
  /\ draggingItem = NoItem
  /\ dataTransfer = NoDrag
  /\ phase = "rendered"
  /\ isViewerReady = FALSE
  /\ viewerInstanceRef = NoInstance
  /\ eventHandlersRef = NoHandlers
  /\ viewerInstance = NoInstance
  /\ capturedMode = FALSE
  /\ sdkPresent \in BOOLEAN
  /\ loadState = "idle"
  /\ loadCalls = 0
  /\ unloadCalls = 0
  /\ viewerLoaded = FALSE
  /\ interactionMode = "unset"
  /\ listeners = {}
  /\ dropCount = 0
  /\ dropOutcome = [d \in Drops |-> "none"]
  /\ createCalls = [d \in Drops |-> 0]
  /\ outstanding = [d \in Drops |-> 0]
  /\ idCounter = 0
  /\ fields = [d \in Drops |-> <<>>]
  /\ ev = [type |-> "init"]

Next ==
  \/ Mount
  \/ Toggle
  \/ \E t \in AnnotationTypes : DragStart(t)
  \/ \E t \in ForeignTexts : ForeignDragStart(t)
  \/ DragEnd
  \/ \E i \in Instances(loadCalls) : LoadResolve(i)
  \/ LoadReject
  \/ Unmount
  \/ \E h \in listeners, t \in Targets : DragOver(h, t)
  \/ \E h \in listeners, t \in Targets :
       \E k \in 0..Len(DropCalls(dataTransfer.text)), r \in PointResultsAt(h, t) :
         Drop(h, t, k, r) /\ UNCHANGED fields
  \/ \E d \in Drops, ok \in BOOLEAN : CreateSettle(d, ok)

Spec == Init /\ [][Next]_vars

------------------------------------------------------------------------------
\* The drops of one loaded viewer, with the arguments of every
\* instance.create call kept per invocation.

\* The instance of the one load: it has a contentDocument and no
\* getPageIndexFromClientPoint.
LoadedInstance ==
  [id |-> 1, contentDocument |-> TRUE, getPageIndexFromClientPoint |-> FALSE]

\* `instance.create([widget, formField])` of the invocation that just ran:
\* the widget's id and the form field's name.
RecordCreate ==
  fields' = IF ev'.created # <<>>
              THEN [fields EXCEPT ![ev'.drop] = <<ev'.created[1].id, ev'.created[2].name>>]
              ELSE fields

InitFields == Init /\ sdkPresent

NextFields ==
  \/ Mount
  \/ Toggle
  \/ \E t \in AnnotationTypes : DragStart(t)
  \/ \E t \in ForeignTexts : ForeignDragStart(t)
  \/ DragEnd
  \/ LoadResolve(LoadedInstance)
  \/ \E h \in listeners, k \in 0..Len(DropCalls(dataTransfer.text)) :
       Drop(h, "page", k, <<"not called">>) /\ RecordCreate
  \/ \E d \in Drops, ok \in BOOLEAN : CreateSettle(d, ok)

SpecFields == InitFields /\ [][NextFields]_vars

------------------------------------------------------------------------------
\* Claims.

DropListeners == {h \in listeners : h.kind = "drop"}

RECURSIVE SumTo(_, _)
SumTo(f, n) == IF n = 0 THEN 0 ELSE f[n] + SumTo(f, n - 1)
\* instance.create calls started and not yet settled, over all invocations.
TotalOutstanding == SumTo(outstanding, MaxDrops)

\* C1: whenever the mounted viewer holds an instance and has handlers
\* installed, the `enabled` flag of the installed dragover and drop handlers
\* equals the current formCreatorMode, for every ordering of toggles and the
\* completion of the load.
C1_HandlersFollowMode ==
  (phase = "mounted" /\ viewerInstanceRef # NoInstance /\ eventHandlersRef # NoHandlers)
    => /\ eventHandlersRef.dragover.enabled = formCreatorMode
       /\ eventHandlersRef.drop.enabled = formCreatorMode
       /\ \A h \in listeners : h.enabled = formCreatorMode

\* C2: while formCreatorMode is false no installed drop handler is enabled,
\* and a drop delivered then returns without preventDefault, without an SDK
\* call or constructor and without instance.create.
C2_NoCreationWhileOff ==
  ~formCreatorMode =>
    /\ \A h \in DropListeners : ~h.enabled
    /\ ev.type = "drop" =>
         /\ ~ev.defaultPrevented
         /\ ev.sdkCalls = <<>>
         /\ ev.created = <<>>
         /\ createCalls[ev.drop] = 0
         /\ outstanding[ev.drop] = 0

\* The drop of a sidebar icon, dragged while the mode was on, was delivered
\* to the installed handler after the mode had been switched off.
C2_Witness ==
  /\ ev.type = "drop" /\ ~formCreatorMode
  /\ ev.result = "undefined"
  /\ draggingItem # NoItem

\* C3: a dragstart handled with formCreatorMode false is cancelled, sets no
\* 'text' payload and leaves draggingItem unchanged; handled with
\* formCreatorMode true it sets the payload and draggingItem to the icon's
\* annotation type, one of 'Signature', 'DateSigned', 'Initials'.
C3_DragStartGated ==
  [][ev'.type = "dragstart" =>
       IF ~formCreatorMode
         THEN /\ ev'.defaultPrevented
              /\ ev'.textSet = <<>>
              /\ dataTransfer' = dataTransfer
              /\ draggingItem' = draggingItem
         ELSE /\ ev'.annotationType \in AnnotationTypes
              /\ ev'.textSet = <<ev'.annotationType>>
              /\ dataTransfer'.source = "sidebar"
              /\ dataTransfer'.text = ev'.annotationType
              /\ draggingItem' = ev'.annotationType]_vars

\* A dragstart was cancelled because the mode is off.
C3_Witness ==
  /\ ev.type = "dragstart" /\ ~formCreatorMode
  /\ ev.defaultPrevented /\ dataTransfer = NoDrag

\* C4: whenever an instance is loaded, the interaction mode last set through
\* setViewState is FORM_CREATOR if formCreatorMode is true and DEFAULT if it
\* is false, for every interleaving of toggles and the completion of the load.
C4_ModeFollowsToggle ==
  (phase = "mounted" /\ viewerInstanceRef # NoInstance)
    => interactionMode = InteractionModeFor(formCreatorMode)

\* The create call the claim describes for a dropped label: one widget and
\* one form field, their kind and names fixed by the label.
DescribedCreate(label, created) ==
  /\ Len(created) = 2
  /\ LET widget == created[1]
         field == created[2]
         id == widget.id
     IN /\ widget.type = "WidgetAnnotation"
        /\ CASE label = "Signature" ->
                  /\ field.type = "SignatureFormField"
                  /\ field.name = "signature-" \o id
                  /\ widget.name = "Signature"
             [] label = "DateSigned" ->
                  /\ field.type = "TextFormField"
                  /\ field.name = "date-" \o id
                  /\ field.value = "TBD: Date Signed"
                  /\ widget.name = "Date Signed"
             [] label = "Initials" ->
                  /\ field.type = "SignatureFormField"
                  /\ field.name = "initials-" \o id
                  /\ widget.name = "Initials"
             [] OTHER ->
                  /\ field.type = "SignatureFormField"
                  /\ field.name = "annotation-" \o id
                  /\ widget.name = (IF label = "" THEN "Annotation" ELSE label)

\* The run of an enabled drop reached its instance.create call.
ReachedCreate == Len(ev.sdkCalls) > 0 /\ ev.sdkCalls[Len(ev.sdkCalls)] = "create"

\* C5 as stated: every drop handled while enabled issues exactly one
\* instance.create call, carrying the widget and the form field the dropped
\* label determines.
C5_EveryEnabledDropCreates ==
  (ev.type = "drop" /\ ev.enabled)
    => /\ createCalls[ev.drop] = 1
       /\ DescribedCreate(ev.label, ev.created)

\* C5 as amended: an enabled drop in which no SDK call before instance.create
\* throws issues exactly one create call, carrying the widget and the form
\* field the dropped label determines; an enabled drop in which an earlier
\* SDK call throws issues none.
C5_DropCreatesByLabel ==
  (ev.type = "drop" /\ ev.enabled)
    => IF ReachedCreate
         THEN /\ createCalls[ev.drop] = 1
              /\ DescribedCreate(ev.label, ev.created)
         ELSE /\ createCalls[ev.drop] = 0
              /\ ev.created = <<>>

\* An enabled drop of the 'DateSigned' icon has issued its create call.
C5_Witness ==
  /\ ev.type = "drop" /\ ev.enabled /\ ev.label = "DateSigned"
  /\ ev.created # <<>> /\ createCalls[ev.drop] = 1

\* C6 as stated: at every reachable state at most one instance.create call
\* is outstanding, also when a second drop arrives while the create call of
\* an earlier drop is pending.
C6_AtMostOneCreateOutstanding == TotalOutstanding <= 1

\* C6 as amended: every drop-handler invocation has at most one
\* instance.create call outstanding, and only while it awaits that call;
\* calls of different invocations may be outstanding together.
C6_OneCreatePerInvocation ==
  \A d \in Drops :
    /\ outstanding[d] <= 1
    /\ outstanding[d] = 1 <=> dropOutcome[d] = "pending"

\* A second drop has issued its create call while the first is pending.
C6_Witness ==
  /\ ev.type = "drop" /\ ev.drop = 2
  /\ outstanding[1] = 1 /\ outstanding[2] = 1

UserEvents == {"toggle", "dragstart", "foreignDragstart", "dragend", "dragover",
               "drop", "createSettled"}

\* C7: NutrientViewer.load is invoked at most once; while the component is
\* mounted unload is not invoked and a stored instance handle is not
\* replaced; no toggle, drag, drop or create settlement invokes load or
\* unload or changes the stored handle.
C7_SingleLoad ==
  [][/\ loadCalls' <= 1
     /\ phase' = "mounted" =>
          /\ unloadCalls' = 0
          /\ viewerInstanceRef # NoInstance => viewerInstanceRef' = viewerInstanceRef
     /\ ev'.type \in UserEvents =>
          /\ loadCalls' = loadCalls
          /\ unloadCalls' = unloadCalls
          /\ viewerInstanceRef' = viewerInstanceRef]_vars

\* The mode was toggled after the load resolved and a drop was handled.
C7_Witness ==
  /\ ev.type = "toggle" /\ phase = "mounted"
  /\ loadCalls = 1 /\ viewerInstanceRef # NoInstance /\ dropCount > 0

\* C8: once NutrientViewer.load has rejected, the load stays rejected, load
\* is not called again, isViewerReady is false, viewerInstanceRef is null, no
\* dragover or drop handler is registered and setViewState has not been
\* called.
C8_FailedLoadStaysFailed ==
  [][/\ loadState' = "rejected" =>
          /\ ~isViewerReady'
          /\ viewerInstanceRef' = NoInstance
          /\ eventHandlersRef' = NoHandlers
          /\ listeners' = {}
          /\ interactionMode' = "unset"
          /\ loadCalls' = 1
     /\ loadState = "rejected" => loadState' = "rejected"]_vars

\* The mode was toggled on after the load had failed.
C8_Witness ==
  loadState = "rejected" /\ ev.type = "toggle" /\ formCreatorMode

\* C9: when an SDK call of an enabled drop throws or its create call
\* rejects, the handler completes with false, instance.create has been
\* invoked at most once for that drop and is not outstanding, and the
\* installed handlers and the instance handle are unchanged.
C9_CreationFailureCaught ==
  [][(ev'.type \in {"drop", "createSettled"} /\ ev'.errorCaught) =>
       /\ ev'.result = "false"
       /\ dropOutcome'[ev'.drop] = "failed"
       /\ createCalls'[ev'.drop] <= 1
       /\ outstanding'[ev'.drop] = 0
       /\ UNCHANGED <<listeners, eventHandlersRef, viewerInstanceRef,
                      viewerInstance>>]_vars

\* A drop created its field after the create call of an earlier drop had
\* been rejected.
C9_Witness ==
  /\ ev.type = "createSettled" /\ ev.drop = 2 /\ ev.ok
  /\ dropOutcome[1] = "failed" /\ createCalls[1] = 1
  /\ dropOutcome[2] = "created"

\* C10: once the component is unmounted and the load is no longer pending,
\* no dragover or drop handler of the component is attached, the viewer is
\* unloaded from the container and viewerInstanceRef is null.
C10_NothingAliveAfterUnmount ==
  (phase = "unmounted" /\ loadState # "pending")
    => /\ listeners = {}
       /\ ~viewerLoaded
       /\ viewerInstanceRef = NoInstance

DragoverListeners == {h \in listeners : h.kind = "dragover"}

\* C11: while the Viewer is mounted at most one dragover and at most one drop
\* listener of the component are attached to the content document;
\* eventHandlersRef.current is null exactly when none is attached and
\* otherwise holds exactly the attached pair; after a toggle with the viewer
\* ready the attached pair is the newly made one, the old pair removed.
C11_HandlersNeverStacked ==
  phase = "mounted" =>
    /\ Cardinality(DragoverListeners) <= 1
    /\ Cardinality(DropListeners) <= 1
    /\ eventHandlersRef = NoHandlers <=> listeners = {}
    /\ eventHandlersRef # NoHandlers =>
         /\ listeners = {eventHandlersRef.dragover, eventHandlersRef.drop}
         /\ eventHandlersRef.dragover.kind = "dragover"
         /\ eventHandlersRef.drop.kind = "drop"
    /\ (ev.type = "toggle" /\ viewerInstanceRef.contentDocument) =>
         /\ eventHandlersRef # NoHandlers
         /\ \A h \in listeners : h.enabled = formCreatorMode

\* The mode has been toggled back off with the viewer ready: the handlers were
\* re-registered at least once over an installed pair.
C11_Witness ==
  /\ phase = "mounted" /\ ev.type = "toggle" /\ ~formCreatorMode
  /\ isViewerReady /\ Cardinality(listeners) = 2

\* The node itself and its ancestors.
RECURSIVE SelfAndAncestors(_)
SelfAndAncestors(node) ==
  IF node = NullNode THEN {} ELSE {node} \cup SelfAndAncestors(DOM[node].parentNode)

\* An element carries the class: as one of its classes or as a substring of
\* its className.
CarriesClass(node, className) ==
  /\ DOM[node].isElement
  /\ \/ className \in ClassList(DOM[node].className)
     \/ Includes(DOM[node].className, className)

\* The target is on a page, as the claim describes it.
OnPage(target) ==
  \/ \E a \in SelfAndAncestors(target) :
       CarriesClass(a, "PSPDFKit-Page") \/ CarriesClass(a, "pspdfkit-page")
  \/ /\ DOM[target].isElement
     /\ \E cls \in ClassList(DOM[target].className) :
          \E i \in 1..(Len(cls) - 3) : ToLowerCase(SubSeq(cls, i, i + 3)) = "page"

\* C13: the dragover handler calls preventDefault exactly when it was
\* installed with enabled true and the event target is on a page: the target
\* or an ancestor carries class 'PSPDFKit-Page' or 'pspdfkit-page', or the
\* target itself has a class containing 'page' case-insensitively; never when
\* enabled is false.
C13_DragoverAcceptsOnPage ==
  ev.type = "dragover" =>
    /\ ev.defaultPrevented <=> (ev.enabled /\ OnPage(ev.target))
    /\ ~ev.enabled => ~ev.defaultPrevented

\* An enabled dragover was accepted on a target that only has a class
\* containing 'page' itself.
C13_Witness ==
  /\ ev.type = "dragover" /\ ev.enabled /\ ev.defaultPrevented
  /\ ev.target = "thumb"

\* The integer whose decimal form is the data-page-index attribute of a node,
\* 0 when the attribute is absent or empty.
DescribedAttrIndex(node) ==
  LET attr == DOM[node].dataPageIndex
  IN IF attr = <<>> \/ attr[1] = "" THEN Num(0)
     ELSE Num(CHOOSE n \in 0..99 : ToString(n) = attr[1])

\* The page index the claim describes for the drop just handled.
DescribedPageIndex ==
  IF FindPageElement(ev.target) # NullNode
    THEN DescribedAttrIndex(FindPageElement(ev.target))
    ELSE IF viewerInstance.getPageIndexFromClientPoint
              /\ ev.pointResult # <<"throw">>
           THEN ev.pointResult
           ELSE Num(0)

\* C14: the page index of an enabled drop is the integer of the page
\* element's data-page-index (0 when absent or empty) when a page element is
\* found, and otherwise the result of instance.getPageIndexFromClientPoint,
\* or 0 when the instance lacks the method or the call throws; the created
\* widget and the transformed rectangle carry that index, and a drop with no
\* page element creates a field all the same.
C14_PageIndexResolution ==
  (ev.type = "drop" /\ ev.enabled) =>
    /\ ev.pageIndex = DescribedPageIndex
    /\ ReachedCreate =>
         /\ ev.created # <<>>
         /\ ev.created[1].pageIndex = DescribedPageIndex
         /\ ev.created[1].boundingBox.pageIndex = DescribedPageIndex

\* A drop with no page element found created a field on the page the
\* instance reported for the drop position.
C14_Witness ==
  /\ ev.type = "drop" /\ ev.enabled /\ ev.target = "label"
  /\ ev.pointResult = Num(1)
  /\ ev.created # <<>> /\ ev.created[1].pageIndex = Num(1)

\* C15: draggingItem is null initially and always null or one of
\* 'Signature', 'DateSigned', 'Initials'; it becomes non-null only through a
\* drag start accepted while formCreatorMode is true; after a drag end
\* handled by the page it is null; a toggle does not change it.
C15_DraggingItem ==
  /\ draggingItem = NoItem
  /\ [][/\ draggingItem' \in AnnotationTypes \cup {NoItem}
        /\ (draggingItem' # draggingItem /\ draggingItem' # NoItem) =>
             /\ ev'.type = "dragstart" /\ formCreatorMode
             /\ ~ev'.defaultPrevented
             /\ draggingItem' = ev'.annotationType
        /\ (ev'.type = "dragend" /\ phase = "mounted") => draggingItem' = NoItem
        /\ ev'.type = "toggle" => draggingItem' = draggingItem]_vars

\* The mode was toggled off while the 'Initials' icon was being dragged.
C15_Witness ==
  /\ ev.type = "toggle" /\ ~formCreatorMode
  /\ draggingItem = "Initials" /\ dataTransfer.source = "sidebar"

\* C12: in every create call the form field's annotationIds holds exactly
\* one element, the widget's id, and the form field's name is the widget's
\* formFieldName; with generateInstantId never returning a value twice, no
\* two drop invocations give create the same widget id or the same form
\* field name.
C12_WidgetAndFieldPaired ==
  /\ (ev.type = "drop" /\ ev.created # <<>>) =>
        /\ Len(ev.created) = 2
        /\ Len(ev.created[2].annotationIds) = 1
        /\ ev.created[2].annotationIds[1] = ev.created[1].id
        /\ ev.created[2].name = ev.created[1].formFieldName
        /\ fields[ev.drop] = <<ev.created[1].id, ev.created[2].name>>
  /\ \A d1, d2 \in Drops :
        (d1 # d2 /\ fields[d1] # <<>> /\ fields[d2] # <<>>) =>
          /\ fields[d1][1] # fields[d2][1]
          /\ fields[d1][2] # fields[d2][2]

\* Two drops of the 'DateSigned' icon each reached instance.create.
C12_Witness ==
  /\ ev.type = "drop" /\ ev.drop = 2 /\ ev.label = "DateSigned"
  /\ ev.created # <<>>
  /\ fields[1] # <<>> /\ SubSeq(fields[1][2], 1, 5) = "date-"

====
